---- MODULE Spec2Model ----
(***************************************************************************)
(* Lead import of the campaign editor (EditCampaign): parseCSV and the     *)
(* asynchronous handler handleFileUpload, with the component state it      *)
(* reads and writes, the lead store's insert and the automation webhook.   *)
(* Beside it: the save of the campaign details (handleSubmit), the         *)
(* Dashboard's fetchDashboardData, and AITrainer's handleSubmit with the   *)
(* timer that clears its success message.                                  *)
(*                                                                         *)
(* Text is a sequence of one-character strings, so that split, trim,       *)
(* toLowerCase and replace are computed character by character as the      *)
(* code computes them.  User-facing messages are TLA+ strings.             *)
(***************************************************************************)
EXTENDS Integers, Sequences, FiniteSets, TLC

\* ------------------------------------------------------------------------
\* JavaScript values
\* ------------------------------------------------------------------------

\* null
Null == [t |-> "null"]

\* undefined (a property that was never assigned)
Undefined == [t |-> "undefined"]

\* a string value
Str(s) == [t |-> "string", s |-> s]

\* JavaScript truthiness of null, undefined or a string
Truthy(v) == v.t = "string" /\ v.s # <<>>

\* a || b
OrElse(a, b) == IF Truthy(a) THEN a ELSE b

\* ------------------------------------------------------------------------
\* String primitives
\* ------------------------------------------------------------------------

\* the characters String.prototype.trim removes
WhiteSpace == {" ", "\t", "\r", "\n"}

UpperCase == <<"A","B","C","D","E","F","G","H","I","J","K","L","M",
               "N","O","P","Q","R","S","T","U","V","W","X","Y","Z">>

LowerCase == <<"a","b","c","d","e","f","g","h","i","j","k","l","m",
               "n","o","p","q","r","s","t","u","v","w","x","y","z">>

\* toLowerCase on one character
LowerChar(ch) ==
  IF \E k \in 1..Len(UpperCase) : UpperCase[k] = ch
  THEN LowerCase[CHOOSE k \in 1..Len(UpperCase) : UpperCase[k] = ch]
  ELSE ch

\* s.toLowerCase()
ToLowerCase(s) == [k \in 1..Len(s) |-> LowerChar(s[k])]

\* s.trim()
Trim(s) ==
  LET keep == {k \in 1..Len(s) : s[k] \notin WhiteSpace}
  IN  IF keep = {} THEN <<>>
      ELSE LET lo == CHOOSE k \in keep : \A j \in keep : k <= j
               hi == CHOOSE k \in keep : \A j \in keep : k >= j
           IN  SubSeq(s, lo, hi)

\* s.replace(/"/g, '')
IsNotQuote(ch) == ch # "\""

StripQuotes(s) == SelectSeq(s, IsNotQuote)

\* s.split(sep) for a one-character separator: always at least one piece
RECURSIVE Split(_, _)
Split(s, sep) ==
  LET at == {k \in 1..Len(s) : s[k] = sep}
  IN  IF at = {} THEN <<s>>
      ELSE LET k == CHOOSE x \in at : \A y \in at : x <= y
           IN  <<SubSeq(s, 1, k - 1)>> \o Split(SubSeq(s, k + 1, Len(s)), sep)

\* array.map(f)
Map(f(_), xs) == [k \in 1..Len(xs) |-> f(xs[k])]

\* ------------------------------------------------------------------------
\* parseCSV
\* ------------------------------------------------------------------------

\* the canonical fields a header can assign
Fields == {"name", "phone", "email", "company_name", "job_title",
           "source_url", "source_platform"}

\* the switch over the header: the field a header assigns, or "" for none
FieldOf(header) ==
  CASE header \in { <<"n","a","m","e">>,
                    <<"f","u","l","l","_","n","a","m","e">>,
                    <<"f","i","r","s","t","_","n","a","m","e">> } -> "name"
    [] header \in { <<"p","h","o","n","e">>,
                    <<"p","h","o","n","e","_","n","u","m","b","e","r">>,
                    <<"m","o","b","i","l","e">> } -> "phone"
    [] header \in { <<"e","m","a","i","l">>,
                    <<"e","m","a","i","l","_","a","d","d","r","e","s","s">> } -> "email"
    [] header \in { <<"c","o","m","p","a","n","y","_","n","a","m","e">>,
                    <<"c","o","m","p","a","n","y">>,
                    <<"o","r","g","a","n","i","z","a","t","i","o","n">> } -> "company_name"
    [] header \in { <<"j","o","b","_","t","i","t","l","e">>,
                    <<"t","i","t","l","e">>,
                    <<"p","o","s","i","t","i","o","n">> } -> "job_title"
    [] header \in { <<"s","o","u","r","c","e","_","u","r","l">>,
                    <<"u","r","l">>,
                    <<"w","e","b","s","i","t","e">> } -> "source_url"
    [] header \in { <<"s","o","u","r","c","e","_","p","l","a","t","f","o","r","m">>,
                    <<"p","l","a","t","f","o","r","m">>,
                    <<"s","o","u","r","c","e">> } -> "source_platform"
    [] OTHER -> ""

\* line => line.trim() as the filter's predicate
NonBlank(line) == Trim(line) # <<>>

\* csvText.split('\n').filter(line => line.trim())
Lines(csvText) == SelectSeq(Split(csvText, "\n"), NonBlank)

\* variant: the header is not lower-cased
HeaderCellCaseSensitive(h) == StripQuotes(Trim(h))

\* h => h.trim().toLowerCase().replace(/"/g, '')
HeaderCell(h) == StripQuotes(ToLowerCase(Trim(h)))

\* lines[0].split(',').map(...)
Headers(line) == Map(HeaderCell, Split(line, ","))

\* a split on the commas that have an even number of quotes before them
RECURSIVE SplitOutsideQuotes(_)
SplitOutsideQuotes(s) ==
  LET quotesBefore(k) == Cardinality({q \in 1..(k - 1) : s[q] = "\""})
      at == {k \in 1..Len(s) : s[k] = "," /\ quotesBefore(k) % 2 = 0}
  IN  IF at = {} THEN <<s>>
      ELSE LET k == CHOOSE x \in at : \A y \in at : x <= y
           IN  <<SubSeq(s, 1, k - 1)>> \o SplitOutsideQuotes(SubSeq(s, k + 1, Len(s)))

\* v => v.trim().replace(/"/g, '')
ValueCell(v) == StripQuotes(Trim(v))

\* variant: a comma inside double quotes does not end the cell
ValuesQuoteAware(line) == Map(ValueCell, SplitOutsideQuotes(line))

\* lines[i].split(',').map(...)
Values(line) == Map(ValueCell, Split(line, ","))

\* variant: a column beyond the row's last cell takes the last cell
CellValueClamped(values, index) ==
  OrElse(IF index <= Len(values) THEN Str(values[index])
         ELSE Str(values[Len(values)]), Null)

\* values[index] || null
CellValue(values, index) ==
  OrElse(IF index <= Len(values) THEN Str(values[index]) ELSE Undefined, Null)

\* const lead: any = {}
EmptyLead == [f \in Fields |-> Undefined]

\* variant: a later column does not replace a non-empty earlier value
RECURSIVE AssignFieldsKeepFirst(_, _, _)
AssignFieldsKeepFirst(headers, values, n) ==
  IF n = 0 THEN EmptyLead
  ELSE LET lead == AssignFieldsKeepFirst(headers, values, n - 1)
           f    == FieldOf(headers[n])
       IN  IF f = "" THEN lead
           ELSE [lead EXCEPT ![f] = OrElse(lead[f], CellValue(values, n))]

\* headers.forEach over the first n headers: each matching header assigns
RECURSIVE AssignFields(_, _, _)
AssignFields(headers, values, n) ==
  IF n = 0 THEN EmptyLead
  ELSE LET lead == AssignFields(headers, values, n - 1)
           f    == FieldOf(headers[n])
       IN  IF f = "" THEN lead
           ELSE [lead EXCEPT ![f] = CellValue(values, n)]

\* the lead built from one data line
LeadOf(headers, line) == AssignFields(headers, Values(line), Len(headers))

\* variant: the company name also counts as contact data
HasRequiredOrCompany(lead) ==
  Truthy(OrElse(OrElse(OrElse(lead["name"], lead["phone"]), lead["email"]),
                lead["company_name"]))

\* if (lead.name || lead.phone || lead.email)
HasRequired(lead) ==
  Truthy(OrElse(OrElse(lead["name"], lead["phone"]), lead["email"]))

\* variant: the diagnostic carries the loop index i, not i + 1
RowErrorLoopIndex(k) ==
  "Row " \o ToString(k - 1) \o ": Missing required data (name, phone, or email)"

\* `Row ${i + 1}: Missing required data (name, phone, or email)`
\* (k is the 1-based index into lines, which is the code's i + 1)
RowError(k) ==
  "Row " \o ToString(k) \o ": Missing required data (name, phone, or email)"

\* variant: the loop breaks at the first rejected row
RECURSIVE ParseRowsUntilRejected(_, _, _)
ParseRowsUntilRejected(headers, lines, n) ==
  IF n <= 1 THEN [leads |-> <<>>, errors |-> <<>>]
  ELSE LET acc  == ParseRowsUntilRejected(headers, lines, n - 1)
           lead == LeadOf(headers, lines[n])
       IN  IF acc.errors # <<>> THEN acc
           ELSE IF HasRequired(lead)
           THEN [acc EXCEPT !.leads = Append(@, lead)]
           ELSE [acc EXCEPT !.errors = Append(@, RowError(n))]

\* variant: unshift instead of push, the latest row comes first
RECURSIVE ParseRowsLatestFirst(_, _, _)
ParseRowsLatestFirst(headers, lines, n) ==
  IF n <= 1 THEN [leads |-> <<>>, errors |-> <<>>]
  ELSE LET acc  == ParseRowsLatestFirst(headers, lines, n - 1)
           lead == LeadOf(headers, lines[n])
       IN  IF HasRequired(lead)
           THEN [acc EXCEPT !.leads = <<lead>> \o @]
           ELSE [acc EXCEPT !.errors = <<RowError(n)>> \o @]

\* the loop over lines[1..]: leads and errors after the first n lines
RECURSIVE ParseRows(_, _, _)
ParseRows(headers, lines, n) ==
  IF n <= 1 THEN [leads |-> <<>>, errors |-> <<>>]
  ELSE LET acc  == ParseRows(headers, lines, n - 1)
           lead == LeadOf(headers, lines[n])
       IN  IF HasRequired(lead)
           THEN [acc EXCEPT !.leads = Append(@, lead)]
           ELSE [acc EXCEPT !.errors = Append(@, RowError(n))]

\* variant: fewer than 2 lines give the object with no leads and no errors
parseCSVAlwaysObject(csvText) ==
  LET lines == Lines(csvText)
  IN  IF Len(lines) < 2 THEN [t |-> "object", leads |-> <<>>, errors |-> <<>>]
      ELSE LET r == ParseRows(Headers(lines[1]), lines, Len(lines))
           IN  [t |-> "object", leads |-> r.leads, errors |-> r.errors]

\* parseCSV: an empty array when there are fewer than 2 lines, otherwise
\* the object { leads, errors }
parseCSV(csvText) ==
  LET lines == Lines(csvText)
  IN  IF Len(lines) < 2 THEN [t |-> "array", length |-> 0]
      ELSE LET r == ParseRows(Headers(lines[1]), lines, Len(lines))
           IN  [t |-> "object", leads |-> r.leads, errors |-> r.errors]

\* ------------------------------------------------------------------------
\* Inputs: the files the user can choose, the replies of the collaborators
\* ------------------------------------------------------------------------

\* most data lines in a generated file
MaxRows == 2

\* most import attempts in one behaviour
MaxAttempts == 2

\* name,company
HeaderNameCompany == <<"n","a","m","e",",","c","o","m","p","a","n","y">>

\* user_id,"Phone",STATUS
HeaderUserPhoneStatus ==
  <<"u","s","e","r","_","i","d",",","\"","P","h","o","n","e","\"",",",
    "S","T","A","T","U","S">>

HeaderLines == {HeaderNameCompany, HeaderUserPhoneStatus}

\* Al,Acme      ,Acme      " ",
RowLines == { <<"A","l",",","A","c","m","e">>,
              <<",","A","c","m","e">>,
              <<"\""," ","\"",",">> }

\* the sequences over S of length at most n
RECURSIVE SeqsUpTo(_, _)
SeqsUpTo(S, n) ==
  IF n = 0 THEN {<<>>}
  ELSE LET shorter == SeqsUpTo(S, n - 1)
       IN  shorter \cup {Append(q, x) : q \in shorter, x \in S}

\* the pieces joined by the separator character
RECURSIVE Join(_, _)
Join(pieces, sep) ==
  IF pieces = <<>> THEN <<>>
  ELSE IF Len(pieces) = 1 THEN pieces[1]
  ELSE pieces[1] \o <<sep>> \o Join(Tail(pieces), sep)

\* a File object: only its text content is read
File(text) == [t |-> "file", text |-> text]

\* the files: a header line followed by at most MaxRows data lines
Files ==
  {File(Join(<<h>> \o rows, "\n")) : h \in HeaderLines, rows \in SeqsUpTo(RowLines, MaxRows)}

\* three different files side by side: a header and a blank line only; a
\* valid row, a blank line, a rejected row, a valid row and a trailing
\* newline; a single rejected row
MixedDisk ==
  { File(Join(<<HeaderNameCompany, <<" "," ">> >>, "\n")),
    File(Join(<<HeaderNameCompany, <<"A","l",",","A","c","m","e">>, <<" ">>,
                <<",","A","c","m","e">>, <<"\""," ","\"",",">>, <<>> >>, "\n")),
    File(Join(<<HeaderNameCompany, <<",","A","c","m","e">> >>, "\n")) }

\* what the user's disk can hold in one behaviour
Disks == {{f} : f \in Files} \cup {MixedDisk}

\* useAuth().user: the signed-in user, or null when nobody is signed in
Users == {[id |-> "u1"], Null}

\* the campaign row of the route's id, as the store returns it
Campaigns == {[id |-> "c1", status |-> "draft"]}

\* error.message of a failed batch insert
DbErrorMessages == {"permission denied"}

\* values a rejected promise can carry: an Error with a message, or another value
Thrown == {[isError |-> TRUE, message |-> "Failed to fetch"],
           [isError |-> FALSE, message |-> ""]}

\* response.status of a non-OK webhook response
BadStatuses == {500}

\* ------------------------------------------------------------------------
\* Component state of EditCampaign and the collaborators' request logs
\* ------------------------------------------------------------------------

VARIABLES
  user,          \* useAuth().user
  campaign,      \* useState<Campaign | null>(null)
  loading,       \* useState(true)
  page,          \* "edit" while the component is mounted, "campaigns" after navigate
  disk,          \* the files the user can pick in the file input
  csvFile,       \* useState<File | null>(null)
  uploadLoading, \* useState(false)
  uploadResult,  \* useState<UploadResult | null>(null)
  attempts,      \* the calls of handleFileUpload that got past its guard, in order
  inserts,       \* the batches handed to supabase.from('uploaded_leads').insert
  webhookCalls,  \* the form bodies POSTed to the automation webhook
  save,          \* handleSubmit of EditCampaign: saving and what its outcome replaced
  dashboard,     \* the Dashboard component and the uploaded_leads rows it counts
  trainer        \* the AITrainer component: form, banner, pending timers

vars == <<user, campaign, loading, page, disk, csvFile, uploadLoading,
          uploadResult, attempts, inserts, webhookCalls, save, dashboard,
          trainer>>

\* a number, as the count of a select
Num(n) == [t |-> "number", n |-> n]

\* a promise that has not settled
Pending == [t |-> "pending"]

\* nothing recorded so far
NothingYet == [t |-> "nothing"]

\* EditCampaign: useState(false) for saving; no save has set an outcome
SaveIdle ==
  [saving   |-> FALSE,
   inFlight |-> {},           \* the import attempts in flight when Save was clicked
   replaced |-> NothingYet]   \* what was displayed when the save set its result

\* Dashboard before its effect has run: loading, all stats 0; rows are the
\* statuses of the user's uploaded_leads rows
DashboardWith(rows) ==
  [pc           |-> "effect",   \* "effect", "campaigns", "counts", "active" or "done"
   loading      |-> TRUE,
   stats        |-> [totalCampaigns |-> 0, totalLeads |-> 0, bookedLeads |-> 0,
                     activeLeads |-> 0],
   replies      |-> [q \in {"campaigns", "uploaded_leads", "leads"} |-> Pending],
   activeReply  |-> Pending,
   rows         |-> rows,
   totalReadAt  |-> 0,          \* how many rows there were when leadsCount resolved
   activeReadAt |-> 0]          \* how many rows there were when activeLeadsCount resolved

\* formData of AITrainer as useState initialises and handleSubmit resets it
EmptyForm == [resource_type |-> "note", title |-> <<>>, content |-> <<>>,
              link_url |-> <<>>]

\* AITrainer after its resources have loaded
TrainerInit ==
  [showAddForm |-> FALSE,
   saving      |-> FALSE,
   formData    |-> EmptyForm,
   uploadResult |-> Null,
   pc          |-> "idle",      \* "idle", or the await handleSubmit is at: "insert", "fetch"
   timers      |-> 0,           \* setTimeout callbacks that have not run yet
   lastCleared |-> NothingYet]  \* what the banner showed when a timer callback last ran

\* the components that are not on the page
OthersIdle ==
  /\ save = SaveIdle
  /\ dashboard = DashboardWith(<<>>)
  /\ trainer = TrainerInit

\* error instanceof Error ? error.message : fallback
MessageOf(error, fallback) == IF error.isError THEN error.message ELSE fallback

\* the TypeError of reading .length of undefined
LengthOfUndefined ==
  [isError |-> TRUE, message |-> "Cannot read properties of undefined (reading 'length')"]

\* new Error(`Database error: ${dbError.message}`)
DatabaseError(dbError) ==
  [isError |-> TRUE, message |-> "Database error: " \o dbError.message]

\* variant: the per-row diagnostics are left out
NoValidLeadsResultHintOnly(errors) ==
  [success |-> FALSE,
   message |-> "No valid leads found in CSV file.",
   errors  |-> <<"Please ensure your CSV has columns for name, phone, or email">>]

\* the result set when leads.length === 0
NoValidLeadsResult(errors) ==
  [success |-> FALSE,
   message |-> "No valid leads found in CSV file.",
   errors  |-> <<"Please ensure your CSV has columns for name, phone, or email">> \o errors]

\* the result set in the catch block
FailedResult(error) ==
  [success |-> FALSE,
   message |-> "Failed to upload leads to database.",
   errors  |-> <<MessageOf(error, "Unknown error occurred")>>]

\* webhookError || 'Webhook connection failed'
WebhookErrorText(webhookError) ==
  IF webhookError.t = "message" /\ webhookError.text # ""
  THEN webhookError.text ELSE "Webhook connection failed"

\* variant: the note alone, without the webhook's own error
WebhookNotesNoteOnly(webhookSuccess, webhookError) ==
  IF webhookSuccess THEN <<>>
  ELSE <<"Note: Leads saved to database successfully, but automation webhook failed.">>

\* errors: webhookSuccess ? [] : [note, webhook error]
WebhookNotes(webhookSuccess, webhookError) ==
  IF webhookSuccess THEN <<>>
  ELSE <<"Note: Leads saved to database successfully, but automation webhook failed.",
         WebhookErrorText(webhookError)>>

\* variant: the success flag follows the webhook
UploadedResultWebhookDecides(leads, webhookSuccess, webhookError) ==
  [success    |-> webhookSuccess,
   message    |-> "Successfully uploaded " \o ToString(Len(leads))
                    \o " leads to the database!",
   leadsCount |-> Len(leads),
   errors     |-> WebhookNotes(webhookSuccess, webhookError)]

\* the result set after the webhook step
UploadedResult(leads, webhookSuccess, webhookError) ==
  [success    |-> TRUE,
   message    |-> "Successfully uploaded " \o ToString(Len(leads))
                    \o " leads to the database!",
   leadsCount |-> Len(leads),
   errors     |-> WebhookNotes(webhookSuccess, webhookError)]

\* variant: the status is copied from the campaign
LeadToInsertCampaignStatus(lead, u, c) ==
  [user_id         |-> u.id,
   campaign_id     |-> c.id,
   name            |-> lead["name"],
   phone           |-> lead["phone"],
   email           |-> lead["email"],
   company_name    |-> lead["company_name"],
   job_title       |-> lead["job_title"],
   source_url      |-> lead["source_url"],
   source_platform |-> lead["source_platform"],
   status          |-> c.status]

\* one element of leadsToInsert
LeadToInsert(lead, u, c) ==
  [user_id         |-> u.id,
   campaign_id     |-> c.id,
   name            |-> lead["name"],
   phone           |-> lead["phone"],
   email           |-> lead["email"],
   company_name    |-> lead["company_name"],
   job_title       |-> lead["job_title"],
   source_url      |-> lead["source_url"],
   source_platform |-> lead["source_platform"],
   status          |-> "pending"]

\* leads.map(lead => ({...}))
LeadsToInsert(leads, u, c) == [k \in 1..Len(leads) |-> LeadToInsert(leads[k], u, c)]

\* the multipart body of the webhook POST
WebhookBody(u, c, file) == [user_id |-> u.id, campaign |-> c, csv |-> file]

\* a call of handleFileUpload suspended at its first await
NewAttempt(file, u, c) ==
  [pc       |-> "text",      \* "text", "insert", "fetch" (the await it is at) or "done"
   csvFile  |-> file,        \* csvFile, user and campaign as the closure captured them
   user     |-> u,
   campaign |-> c,
   parsed   |-> Null,        \* what parseCSV returned
   insert   |-> 0,           \* index of its batch in inserts, 0 for none
   dbReply  |-> Null,        \* how the insert promise settled
   webhook  |-> 0,           \* index of its POST in webhookCalls, 0 for none
   reply    |-> Null,        \* how the fetch promise settled
   result   |-> Null]        \* the result it passed to setUploadResult

\* the insert promise resolved with { error }, error being null on success
Resolved(error) == [t |-> "resolved", error |-> error]

\* a promise rejected with the thrown value
Rejected(error) == [t |-> "rejected", error |-> error]

\* the fetch promise resolved with a Response
Response(ok, status) == [t |-> "response", ok |-> ok, status |-> status]

\* const { leads, errors } = parseCSV(csvText): undefined when it returned []
\* (an array value is wrapped, so that it can be told from undefined)
LeadsOf(parsed) ==
  IF parsed.t = "object" THEN [t |-> "array", items |-> parsed.leads] ELSE Undefined

ErrorsOf(parsed) ==
  IF parsed.t = "object" THEN [t |-> "array", items |-> parsed.errors] ELSE Undefined

Init ==
  /\ user \in Users
  /\ campaign = Null
  /\ loading = TRUE
  /\ page = "edit"
  /\ disk \in Disks
  /\ csvFile = Null
  /\ uploadLoading = FALSE
  /\ uploadResult = Null
  /\ attempts = <<>>
  /\ inserts = <<>>
  /\ webhookCalls = <<>>
  /\ OthersIdle

\* the effect runs fetchCampaign only if (id && user)
\* fetchCampaign found the row: setCampaign(data), finally setLoading(false)
FetchCampaignOk ==
  /\ user # Null
  /\ page = "edit" /\ loading
  /\ \E data \in Campaigns : campaign' = data
  /\ loading' = FALSE
  /\ UNCHANGED <<save, dashboard, trainer, user, page, disk, csvFile, uploadLoading, uploadResult,
                 attempts, inserts, webhookCalls>>

\* fetchCampaign failed: navigate('/campaigns'), finally setLoading(false)
FetchCampaignError ==
  /\ user # Null
  /\ page = "edit" /\ loading
  /\ page' = "campaigns"
  /\ loading' = FALSE
  /\ UNCHANGED <<save, dashboard, trainer, user, campaign, disk, csvFile, uploadLoading, uploadResult,
                 attempts, inserts, webhookCalls>>

\* the editor is rendered: not the spinner, not "Campaign not found"
Rendered == page = "edit" /\ ~loading /\ campaign # Null

\* onChange of the file input
SelectFile ==
  /\ Rendered
  /\ \E f \in disk \cup {Null} : csvFile' = f
  /\ uploadResult' = Null
  /\ UNCHANGED <<save, dashboard, trainer, user, campaign, loading, page, disk, uploadLoading,
                 attempts, inserts, webhookCalls>>

\* variant: dismissing the banner also clears the selected file
ClearUploadResultAndFile ==
  /\ Rendered
  /\ uploadResult # Null
  /\ uploadResult' = Null
  /\ csvFile' = Null
  /\ UNCHANGED <<save, dashboard, trainer, user, campaign, loading, page, disk, uploadLoading,
                 attempts, inserts, webhookCalls>>

\* clearUploadResult, the dismiss button of the result banner
ClearUploadResult ==
  /\ Rendered
  /\ uploadResult # Null
  /\ uploadResult' = Null
  /\ UNCHANGED <<save, dashboard, trainer, user, campaign, loading, page, disk, csvFile, uploadLoading,
                 attempts, inserts, webhookCalls>>

\* variant: uploadLoading is not set
HandleFileUploadNoLoading ==
  IF csvFile = Null \/ user = Null \/ campaign = Null
  THEN UNCHANGED vars
  ELSE /\ uploadLoading' = uploadLoading
       /\ uploadResult' = Null
       /\ attempts' = Append(attempts, NewAttempt(csvFile, user, campaign))
       /\ UNCHANGED <<save, dashboard, trainer, user, campaign, loading, page,
                      disk, csvFile, inserts, webhookCalls>>

\* variant: the guard comes after setUploadLoading(true) and setUploadResult(null)
HandleFileUploadLateGuard ==
  IF csvFile = Null \/ user = Null \/ campaign = Null
  THEN /\ uploadLoading' = TRUE
       /\ uploadResult' = Null
       /\ UNCHANGED <<save, dashboard, trainer, user, campaign, loading, page,
                      disk, csvFile, attempts, inserts, webhookCalls>>
  ELSE /\ uploadLoading' = TRUE
       /\ uploadResult' = Null
       /\ attempts' = Append(attempts, NewAttempt(csvFile, user, campaign))
       /\ UNCHANGED <<save, dashboard, trainer, user, campaign, loading, page,
                      disk, csvFile, inserts, webhookCalls>>

\* handleFileUpload up to its first await
HandleFileUpload ==
  IF csvFile = Null \/ user = Null \/ campaign = Null
  THEN UNCHANGED vars
  ELSE /\ uploadLoading' = TRUE
       /\ uploadResult' = Null
       /\ attempts' = Append(attempts, NewAttempt(csvFile, user, campaign))
       /\ UNCHANGED <<save, dashboard, trainer, user, campaign, loading, page, disk, csvFile, inserts,
                      webhookCalls>>

\* variant: the button is disabled={!csvFile} only
ClickUploadWhileLoading ==
  /\ Rendered
  /\ csvFile # Null
  /\ Len(attempts) < MaxAttempts
  /\ HandleFileUpload

\* a click on the upload button, which is disabled={!csvFile || uploadLoading}
ClickUpload ==
  /\ Rendered
  /\ csvFile # Null /\ ~uploadLoading
  /\ Len(attempts) < MaxAttempts
  /\ HandleFileUpload

\* variant: no catch block; the fault leaves the handler and no result is set
FinishUnhandled(a, r) ==
  /\ uploadResult' = uploadResult
  /\ uploadLoading' = FALSE
  /\ attempts' = [attempts EXCEPT ![a].pc = "done"]

\* attempt a leaves the try block with a result: setUploadResult(r), and the
\* finally block sets uploadLoading false
Finish(a, r) ==
  /\ uploadResult' = r
  /\ uploadLoading' = FALSE
  /\ attempts' = [attempts EXCEPT ![a].pc = "done", ![a].result = r]

\* variant: no finally block; an early return leaves uploadLoading set
FinishParsedNoFinally(a, parsed, r) ==
  /\ uploadResult' = r
  /\ uploadLoading' = uploadLoading
  /\ attempts' = [attempts EXCEPT ![a].pc = "done", ![a].parsed = parsed,
                                  ![a].result = r]

\* the same, recording what parseCSV returned
FinishParsed(a, parsed, r) ==
  /\ uploadResult' = r
  /\ uploadLoading' = FALSE
  /\ attempts' = [attempts EXCEPT ![a].pc = "done", ![a].parsed = parsed,
                                  ![a].result = r]

\* the same, recording how the insert settled
FinishInsert(a, dbReply, r) ==
  /\ uploadResult' = r
  /\ uploadLoading' = FALSE
  /\ attempts' = [attempts EXCEPT ![a].pc = "done", ![a].dbReply = dbReply,
                                  ![a].result = r]

\* csvFile.text() resolves: parse, then return early, throw, or start the insert
TextResolves(a) ==
  /\ attempts[a].pc = "text"
  /\ LET att    == attempts[a]
         parsed == parseCSV(att.csvFile.text)
         leads  == LeadsOf(parsed)
     IN  IF leads.t = "undefined"
         THEN /\ FinishParsed(a, parsed, FailedResult(LengthOfUndefined))
              /\ UNCHANGED <<inserts, webhookCalls>>
         ELSE IF Len(leads.items) = 0
         THEN /\ FinishParsed(a, parsed, NoValidLeadsResult(ErrorsOf(parsed).items))
              /\ UNCHANGED <<inserts, webhookCalls>>
         ELSE /\ inserts' = Append(inserts, LeadsToInsert(leads.items, att.user, att.campaign))
              /\ attempts' = [attempts EXCEPT ![a].pc = "insert",
                                              ![a].parsed = parsed,
                                              ![a].insert = Len(inserts) + 1]
              /\ UNCHANGED <<uploadResult, uploadLoading, webhookCalls>>
  /\ UNCHANGED <<save, dashboard, trainer, user, campaign, loading, page, disk, csvFile>>

\* csvFile.text() rejects: the catch block
TextRejects(a) ==
  /\ attempts[a].pc = "text"
  /\ \E e \in Thrown : Finish(a, FailedResult(e))
  /\ UNCHANGED <<save, dashboard, trainer, user, campaign, loading, page, disk, csvFile, inserts, webhookCalls>>

\* variant: a body that was already POSTed is not POSTed again
InsertOkOncePerFile(a) ==
  /\ attempts[a].pc = "insert"
  /\ LET att  == attempts[a]
         body == WebhookBody(att.user, att.campaign, att.csvFile)
     IN  IF \E w \in 1..Len(webhookCalls) : webhookCalls[w] = body
         THEN /\ webhookCalls' = webhookCalls
              /\ attempts' = [attempts EXCEPT ![a].pc = "fetch",
                                              ![a].dbReply = Resolved(Null)]
         ELSE /\ webhookCalls' = Append(webhookCalls, body)
              /\ attempts' = [attempts EXCEPT ![a].pc = "fetch",
                                              ![a].dbReply = Resolved(Null),
                                              ![a].webhook = Len(webhookCalls) + 1]
  /\ UNCHANGED <<save, dashboard, trainer, user, campaign, loading, page, disk, csvFile, uploadLoading,
                 uploadResult, inserts>>

\* the insert resolves without error: the webhook POST is sent
InsertOk(a) ==
  /\ attempts[a].pc = "insert"
  /\ LET att == attempts[a]
     IN  /\ webhookCalls' = Append(webhookCalls,
                                   WebhookBody(att.user, att.campaign, att.csvFile))
         /\ attempts' = [attempts EXCEPT ![a].pc = "fetch",
                                         ![a].dbReply = Resolved(Null),
                                         ![a].webhook = Len(webhookCalls) + 1]
  /\ UNCHANGED <<save, dashboard, trainer, user, campaign, loading, page, disk, csvFile, uploadLoading,
                 uploadResult, inserts>>

\* variant: dbError is not checked, the webhook POST is sent all the same
InsertErrorIgnored(a) ==
  /\ attempts[a].pc = "insert"
  /\ \E m \in DbErrorMessages :
       LET att == attempts[a]
       IN  /\ webhookCalls' = Append(webhookCalls,
                                     WebhookBody(att.user, att.campaign, att.csvFile))
           /\ attempts' = [attempts EXCEPT ![a].pc = "fetch",
                                           ![a].dbReply = Resolved([message |-> m]),
                                           ![a].webhook = Len(webhookCalls) + 1]
  /\ UNCHANGED <<save, dashboard, trainer, user, campaign, loading, page, disk, csvFile, uploadLoading,
                 uploadResult, inserts>>

\* variant: an insert that returned an error is issued once more
InsertErrorRetried(a) ==
  /\ attempts[a].pc = "insert"
  /\ \E m \in DbErrorMessages :
       IF attempts[a].dbReply = Null
       THEN /\ inserts' = Append(inserts, inserts[attempts[a].insert])
            /\ attempts' = [attempts EXCEPT ![a].dbReply = Resolved([message |-> m]),
                                            ![a].insert = Len(inserts) + 1]
            /\ UNCHANGED <<uploadResult, uploadLoading>>
       ELSE /\ FinishInsert(a, Resolved([message |-> m]),
                            FailedResult(DatabaseError([message |-> m])))
            /\ UNCHANGED inserts
  /\ UNCHANGED <<save, dashboard, trainer, user, campaign, loading, page, disk, csvFile, webhookCalls>>

\* variant: the catch block also calls setCsvFile(null)
InsertErrorClearsFile(a) ==
  /\ attempts[a].pc = "insert"
  /\ \E m \in DbErrorMessages :
       FinishInsert(a, Resolved([message |-> m]),
                    FailedResult(DatabaseError([message |-> m])))
  /\ csvFile' = Null
  /\ UNCHANGED <<save, dashboard, trainer, user, campaign, loading, page, disk,
                 inserts, webhookCalls>>

\* the insert resolves with { error: dbError }: throw, caught by the catch block
InsertError(a) ==
  /\ attempts[a].pc = "insert"
  /\ \E m \in DbErrorMessages :
       FinishInsert(a, Resolved([message |-> m]),
                    FailedResult(DatabaseError([message |-> m])))
  /\ UNCHANGED <<save, dashboard, trainer, user, campaign, loading, page, disk, csvFile, inserts, webhookCalls>>

\* the insert promise rejects: the catch block
InsertRejects(a) ==
  /\ attempts[a].pc = "insert"
  /\ \E e \in Thrown : FinishInsert(a, Rejected(e), FailedResult(e))
  /\ UNCHANGED <<save, dashboard, trainer, user, campaign, loading, page, disk, csvFile, inserts, webhookCalls>>

\* variant: a file chosen since the attempt began is kept
UploadedKeepsNewFile(a, reply, webhookSuccess, webhookError) ==
  LET r == UploadedResult(LeadsOf(attempts[a].parsed).items, webhookSuccess, webhookError)
  IN  /\ uploadResult' = r
      /\ csvFile' = IF csvFile = attempts[a].csvFile THEN Null ELSE csvFile
      /\ uploadLoading' = FALSE
      /\ attempts' = [attempts EXCEPT ![a].pc = "done", ![a].reply = reply,
                                      ![a].result = r]
      /\ UNCHANGED <<save, dashboard, trainer, user, campaign, loading, page,
                     disk, inserts, webhookCalls>>

\* the end of a successful import: the result, setCsvFile(null), finally
Uploaded(a, reply, webhookSuccess, webhookError) ==
  LET r == UploadedResult(LeadsOf(attempts[a].parsed).items, webhookSuccess, webhookError)
  IN  /\ uploadResult' = r
      /\ csvFile' = Null
      /\ uploadLoading' = FALSE
      /\ attempts' = [attempts EXCEPT ![a].pc = "done", ![a].reply = reply,
                                      ![a].result = r]
      /\ UNCHANGED <<save, dashboard, trainer, user, campaign, loading, page, disk, inserts, webhookCalls>>

\* `Webhook failed with status: ${response.status}`
StatusText(status) ==
  [t |-> "message", text |-> "Webhook failed with status: " \o ToString(status)]

\* `Webhook error: ${error instanceof Error ? error.message : 'Unknown error'}`
ThrownText(e) ==
  [t |-> "message", text |-> "Webhook error: " \o MessageOf(e, "Unknown error")]

\* fetch resolves with a response: response.ok or not
FetchResolves(a) ==
  /\ attempts[a].pc = "fetch"
  /\ \/ Uploaded(a, Response(TRUE, 200), TRUE, Null)
     \/ \E status \in BadStatuses :
          Uploaded(a, Response(FALSE, status), FALSE, StatusText(status))

\* fetch rejects: the inner catch block
FetchRejects(a) ==
  /\ attempts[a].pc = "fetch"
  /\ \E e \in Thrown : Uploaded(a, Rejected(e), FALSE, ThrownText(e))

Next ==
  \/ FetchCampaignOk
  \/ FetchCampaignError
  \/ SelectFile
  \/ ClearUploadResult
  \/ ClickUpload
  \/ \E a \in 1..Len(attempts) : TextResolves(a)
  \/ \E a \in 1..Len(attempts) : TextRejects(a)
  \/ \E a \in 1..Len(attempts) : InsertOk(a)
  \/ \E a \in 1..Len(attempts) : InsertError(a)
  \/ \E a \in 1..Len(attempts) : InsertRejects(a)
  \/ \E a \in 1..Len(attempts) : FetchResolves(a)
  \/ \E a \in 1..Len(attempts) : FetchRejects(a)

Spec == Init /\ [][Next]_vars

\* ------------------------------------------------------------------------
\* parseCSV on its own: uploads of files written to exercise the parser
\* ------------------------------------------------------------------------

\* the case labels of the switch, each with the field its case assigns
Aliases ==
  { <<<<"n","a","m","e">>, "name">>,
    <<<<"f","u","l","l","_","n","a","m","e">>, "name">>,
    <<<<"f","i","r","s","t","_","n","a","m","e">>, "name">>,
    <<<<"p","h","o","n","e">>, "phone">>,
    <<<<"p","h","o","n","e","_","n","u","m","b","e","r">>, "phone">>,
    <<<<"m","o","b","i","l","e">>, "phone">>,
    <<<<"e","m","a","i","l">>, "email">>,
    <<<<"e","m","a","i","l","_","a","d","d","r","e","s","s">>, "email">>,
    <<<<"c","o","m","p","a","n","y","_","n","a","m","e">>, "company_name">>,
    <<<<"c","o","m","p","a","n","y">>, "company_name">>,
    <<<<"o","r","g","a","n","i","z","a","t","i","o","n">>, "company_name">>,
    <<<<"j","o","b","_","t","i","t","l","e">>, "job_title">>,
    <<<<"t","i","t","l","e">>, "job_title">>,
    <<<<"p","o","s","i","t","i","o","n">>, "job_title">>,
    <<<<"s","o","u","r","c","e","_","u","r","l">>, "source_url">>,
    <<<<"u","r","l">>, "source_url">>,
    <<<<"w","e","b","s","i","t","e">>, "source_url">>,
    <<<<"s","o","u","r","c","e","_","p","l","a","t","f","o","r","m">>, "source_platform">>,
    <<<<"p","l","a","t","f","o","r","m">>, "source_platform">>,
    <<<<"s","o","u","r","c","e">>, "source_platform">> }

\* toUpperCase on one character
UpperChar(ch) ==
  IF \E k \in 1..Len(LowerCase) : LowerCase[k] = ch
  THEN UpperCase[CHOOSE k \in 1..Len(LowerCase) : LowerCase[k] = ch]
  ELSE ch

\* s.toUpperCase()
ToUpperCase(s) == [k \in 1..Len(s) |-> UpperChar(s[k])]

\* ways a file can spell a header: as the label, in capitals, capitalised in
\* quotes with blanks around, and with a quote after the first letter
Spellings(alias) ==
  { alias,
    ToUpperCase(alias),
    <<" ", "\"", UpperChar(alias[1])>> \o Tail(alias) \o <<"\"", " ">>,
    <<alias[1], "\"">> \o Tail(alias) }

\* header cells that match no case label: user_id, names, e-mail, full name,
\* and the empty cell
UnknownHeaders ==
  { <<"u","s","e","r","_","i","d">>,
    <<"n","a","m","e","s">>,
    <<"e","-","m","a","i","l">>,
    <<"f","u","l","l"," ","n","a","m","e">>,
    <<>> }

AliasHeaderCells == UNION {Spellings(p[1]) : p \in Aliases} \cup UnknownHeaders

\* a file of two columns, the cell and email, with the one data row x,y
AliasFile(cell) ==
  File(Join(<<cell \o <<",","e","m","a","i","l">>, <<"x",",","y">>>>, "\n"))

AliasFiles == {AliasFile(cell) : cell \in AliasHeaderCells}

\* name,full_name
HeaderNameFullName == <<"n","a","m","e",",","f","u","l","l","_","n","a","m","e">>

\* company,phone
HeaderCompanyPhone == <<"c","o","m","p","a","n","y",",","p","h","o","n","e">>

ParseHeaderLines == {HeaderNameCompany, HeaderNameFullName, HeaderCompanyPhone}

\* Alice,Bob    Alice,    ,Bob    Alice    ,    a blank line    "a,b",c
ParseRowLines ==
  { <<"A","l","i","c","e",",","B","o","b">>,
    <<"A","l","i","c","e",",">>,
    <<",","B","o","b">>,
    <<"A","l","i","c","e">>,
    <<",">>,
    <<" ">>,
    <<"\"","a",",","b","\"",",","c">> }

\* a header line followed by at most MaxRows of these lines
RowFiles ==
  {File(Join(<<h>> \o rows, "\n")) :
     h \in ParseHeaderLines, rows \in SeqsUpTo(ParseRowLines, MaxRows)}

ParseFiles == AliasFiles \cup RowFiles

\* a signed-in user whose disk holds one of these files
InitParse ==
  /\ user \in Users \ {Null}
  /\ campaign = Null
  /\ loading = TRUE
  /\ page = "edit"
  /\ disk \in {{f} : f \in ParseFiles}
  /\ csvFile = Null
  /\ uploadLoading = FALSE
  /\ uploadResult = Null
  /\ attempts = <<>>
  /\ inserts = <<>>
  /\ webhookCalls = <<>>
  /\ OthersIdle

\* the editor loads, the file is chosen and uploaded, and parseCSV runs
NextParse ==
  \/ FetchCampaignOk
  \/ SelectFile
  \/ ClickUpload
  \/ \E a \in 1..Len(attempts) : TextResolves(a)

SpecParse == InitParse /\ [][NextParse]_vars

\* ------------------------------------------------------------------------
\* The editor when every pending promise settles
\* ------------------------------------------------------------------------

\* the disk holds one of the three files of MixedDisk
InitLive ==
  /\ user \in Users
  /\ campaign = Null
  /\ loading = TRUE
  /\ page = "edit"
  /\ disk \in {{f} : f \in MixedDisk}
  /\ csvFile = Null
  /\ uploadLoading = FALSE
  /\ uploadResult = Null
  /\ attempts = <<>>
  /\ inserts = <<>>
  /\ webhookCalls = <<>>
  /\ OthersIdle

\* a pending csvFile.text(), insert or fetch of some attempt settles
Settles ==
  \E a \in 1..Len(attempts) :
    \/ TextRejects(a) \/ TextResolves(a)
    \/ InsertOk(a) \/ InsertError(a) \/ InsertRejects(a)
    \/ FetchResolves(a) \/ FetchRejects(a)

\* no promise stays pending for ever
SpecLive == InitLive /\ [][Next]_vars /\ WF_vars(Settles)

\* ------------------------------------------------------------------------
\* handleFileUpload called whatever the upload button's state
\* ------------------------------------------------------------------------

\* handleFileUpload runs while there is no file, no user or no campaign
HandlerCalledWithoutInputs ==
  /\ page = "edit"
  /\ csvFile = Null \/ user = Null \/ campaign = Null
  /\ HandleFileUpload

NextHandler ==
  \/ Next
  \/ HandlerCalledWithoutInputs

SpecHandler == InitLive /\ [][NextHandler]_vars

\* ------------------------------------------------------------------------
\* EditCampaign with the save of the campaign details (handleSubmit)
\* ------------------------------------------------------------------------

\* the result handleSubmit sets after the update succeeded
SavedResult == [success |-> TRUE, message |-> "Campaign updated successfully!"]

\* the result handleSubmit sets in its catch block
SaveFailedResult ==
  [success |-> FALSE, message |-> "Error updating campaign. Please try again."]

\* the import and the other components stay as they are
SaveOnly ==
  UNCHANGED <<user, campaign, loading, page, disk, csvFile, uploadLoading,
              attempts, inserts, webhookCalls, dashboard, trainer>>

\* a click on Save Changes, which is disabled={saving}: handleSubmit up to
\* its await
ClickSave ==
  /\ Rendered
  /\ ~save.saving
  /\ user # Null
  /\ save' = [save EXCEPT !.saving = TRUE,
                          !.inFlight = {a \in 1..Len(attempts) : attempts[a].pc # "done"}]
  /\ uploadResult' = uploadResult
  /\ SaveOnly

\* variant: the save does not overwrite an outcome that is on display
SaveOkKeepsOutcome ==
  /\ save.saving
  /\ uploadResult' = IF uploadResult = Null THEN SavedResult ELSE uploadResult
  /\ save' = [save EXCEPT !.saving = FALSE, !.replaced = uploadResult]
  /\ SaveOnly

\* the update resolves without error: the result, then finally
SaveOk ==
  /\ save.saving
  /\ uploadResult' = SavedResult
  /\ save' = [save EXCEPT !.saving = FALSE, !.replaced = uploadResult]
  /\ SaveOnly

\* the update returns an error or rejects: catch, then finally
SaveError ==
  /\ save.saving
  /\ uploadResult' = SaveFailedResult
  /\ save' = [save EXCEPT !.saving = FALSE, !.replaced = uploadResult]
  /\ SaveOnly

NextSave ==
  \/ Next
  \/ ClickSave
  \/ SaveOk
  \/ SaveError

SpecSave == InitLive /\ [][NextSave]_vars

\* ------------------------------------------------------------------------
\* Dashboard: fetchDashboardData against a lead store that other sessions
\* write to
\* ------------------------------------------------------------------------

\* most rows of the user in uploaded_leads
MaxStoreRows == 3

\* .in('status', ['pending', 'called', 'contacted'])
ActiveStatuses == {"pending", "called", "contacted"}

\* the user's uploaded_leads rows when the dashboard mounts
InitialRows == {<<>>, <<"booked">>, <<"contacted", "booked">>}

\* the rows of the campaigns and of the leads table that the user owns
CampaignRows == 2

BookedRows == 1

\* select('id', { count: 'exact' }) with the status filter
CountActive(rows) == Cardinality({k \in 1..Len(rows) : rows[k] \in ActiveStatuses})

\* what a count query answers while the store holds the rows
CountOf(q, rows) ==
  CASE q = "campaigns"      -> Num(CampaignRows)
    [] q = "uploaded_leads" -> Num(Len(rows))
    [] q = "leads"          -> Num(BookedRows)

\* count || 0
CountOrZero(reply) == IF reply.t = "number" THEN reply.n ELSE 0

InitDash ==
  /\ user \in Users
  /\ campaign = Null
  /\ loading = TRUE
  /\ page = "dashboard"
  /\ disk = {}
  /\ csvFile = Null
  /\ uploadLoading = FALSE
  /\ uploadResult = Null
  /\ attempts = <<>>
  /\ inserts = <<>>
  /\ webhookCalls = <<>>
  /\ save = SaveIdle
  /\ dashboard \in {DashboardWith(rows) : rows \in InitialRows}
  /\ trainer = TrainerInit

\* everything but the dashboard stays as it is
DashboardOnly ==
  UNCHANGED <<user, campaign, loading, page, disk, csvFile, uploadLoading,
              uploadResult, attempts, inserts, webhookCalls, save, trainer>>

\* the effect: if (user) fetchDashboardData(), up to its first await
DashFetch ==
  /\ page = "dashboard" /\ dashboard.pc = "effect"
  /\ user # Null
  /\ dashboard' = [dashboard EXCEPT !.pc = "campaigns"]
  /\ DashboardOnly

\* the campaigns select resolves without error: the three counts are issued
DashCampaignsOk ==
  /\ page = "dashboard" /\ dashboard.pc = "campaigns"
  /\ dashboard' = [dashboard EXCEPT !.pc = "counts"]
  /\ DashboardOnly

\* the campaigns select returns an error: throw, catch, finally
DashCampaignsError ==
  /\ page = "dashboard" /\ dashboard.pc = "campaigns"
  /\ dashboard' = [dashboard EXCEPT !.pc = "done", !.loading = FALSE]
  /\ DashboardOnly

\* one query of the Promise.all resolves, with its count or with count null;
\* when it is the last of the three the active count is issued
DashCountResolves ==
  /\ page = "dashboard" /\ dashboard.pc = "counts"
  /\ \E q \in {"campaigns", "uploaded_leads", "leads"} :
       /\ dashboard.replies[q] = Pending
       /\ \E reply \in {CountOf(q, dashboard.rows), Null} :
            LET replies == [dashboard.replies EXCEPT ![q] = reply]
            IN  dashboard' =
                  [dashboard EXCEPT
                     !.replies = replies,
                     !.totalReadAt = IF q = "uploaded_leads" THEN Len(dashboard.rows) ELSE @,
                     !.pc = IF \A r \in DOMAIN replies : replies[r] # Pending
                            THEN "active" ELSE "counts"]
  /\ DashboardOnly

\* setStats({...}) with the four replies, then finally setLoading(false)
DashShow(reply) ==
  [dashboard EXCEPT
     !.pc = "done",
     !.loading = FALSE,
     !.activeReply = reply,
     !.activeReadAt = Len(dashboard.rows),
     !.stats = [totalCampaigns |-> CountOrZero(dashboard.replies["campaigns"]),
                totalLeads     |-> CountOrZero(dashboard.replies["uploaded_leads"]),
                bookedLeads    |-> CountOrZero(dashboard.replies["leads"]),
                activeLeads    |-> CountOrZero(reply)]]

\* variant: the active count is answered from the rows the total count saw
DashActiveResolvesAtTotalRead ==
  /\ page = "dashboard" /\ dashboard.pc = "active"
  /\ \E reply \in {Num(CountActive(SubSeq(dashboard.rows, 1, dashboard.totalReadAt))),
                    Null} :
       dashboard' = DashShow(reply)
  /\ DashboardOnly

\* the active count resolves, with its count or with count null
DashActiveResolves ==
  /\ page = "dashboard" /\ dashboard.pc = "active"
  /\ \E reply \in {Num(CountActive(dashboard.rows)), Null} :
       dashboard' = DashShow(reply)
  /\ DashboardOnly

\* an import of another session inserts a row: status 'pending'
LeadInserted ==
  /\ page = "dashboard"
  /\ Len(dashboard.rows) < MaxStoreRows
  /\ dashboard' = [dashboard EXCEPT !.rows = Append(@, "pending")]
  /\ DashboardOnly

NextDash ==
  \/ DashFetch
  \/ DashCampaignsOk
  \/ DashCampaignsError
  \/ DashCountResolves
  \/ DashActiveResolves
  \/ LeadInserted

SpecDash == InitDash /\ [][NextDash]_vars

\* ------------------------------------------------------------------------
\* AITrainer: handleSubmit and the timer that clears its success message
\* ------------------------------------------------------------------------

\* most setTimeout callbacks pending at once
MaxTimers == 2

\* what the user can have typed into the add-resource form
Forms ==
  [resource_type : {"note", "file", "link"},
   title         : {<<>>, <<" ">>, <<"T">>},
   content       : {<<>>, <<"c">>},
   link_url      : {<<>>, <<"u">>}]

\* what the insert can fail with: the error object of the store, which is
\* no Error, and a thrown Error; mentionsColumn is message.includes('column')
TrainerErrors ==
  { [isError |-> FALSE, message |-> "permission denied", mentionsColumn |-> FALSE],
    [isError |-> TRUE, message |-> "column \"title\" does not exist",
     mentionsColumn |-> TRUE] }

\* the results of the three validations
TitleMissing ==
  [success |-> FALSE, message |-> "Please enter a title for your training resource"]

ContentMissing == [success |-> FALSE, message |-> "Please enter content for the note"]

LinkMissing == [success |-> FALSE, message |-> "Please enter a URL for the link"]

\* the result after the resource was saved
ResourceSaved == [success |-> TRUE, message |-> "Training resource saved successfully!"]

\* the result set in the catch block
ResourceFailed(error) ==
  [success |-> FALSE,
   message |-> "Failed to save training resource: "
                 \o MessageOf(error, "Unknown error occurred"),
   errors  |-> IF error.isError /\ error.mentionsColumn
               THEN <<"Database schema mismatch. Please contact support.">>
               ELSE <<>>]

\* the basic validation: the result to show, or null when the form passes
Validation(form) ==
  IF Trim(form.title) = <<>> THEN TitleMissing
  ELSE IF form.resource_type = "note" /\ Trim(form.content) = <<>> THEN ContentMissing
  ELSE IF form.resource_type = "link" /\ Trim(form.link_url) = <<>> THEN LinkMissing
  ELSE Null

InitTrainer ==
  /\ user \in Users
  /\ campaign = Null
  /\ loading = TRUE
  /\ page = "trainer"
  /\ disk = {}
  /\ csvFile = Null
  /\ uploadLoading = FALSE
  /\ uploadResult = Null
  /\ attempts = <<>>
  /\ inserts = <<>>
  /\ webhookCalls = <<>>
  /\ save = SaveIdle
  /\ dashboard = DashboardWith(<<>>)
  /\ trainer = TrainerInit

\* everything but the trainer stays as it is
TrainerOnly ==
  UNCHANGED <<user, campaign, loading, page, disk, csvFile, uploadLoading,
              uploadResult, attempts, inserts, webhookCalls, save, dashboard>>

\* the Add Resource button, and Cancel in the form
ShowAddForm ==
  /\ page = "trainer"
  /\ \E shown \in BOOLEAN : trainer' = [trainer EXCEPT !.showAddForm = shown]
  /\ TrainerOnly

\* the onChange handlers of the form's inputs
EditForm ==
  /\ page = "trainer" /\ trainer.showAddForm
  /\ \E form \in Forms : trainer' = [trainer EXCEPT !.formData = form]
  /\ TrainerOnly

\* handleSubmit up to its first await; Save Resource is disabled={saving}
SubmitResource ==
  /\ page = "trainer" /\ trainer.showAddForm /\ ~trainer.saving
  /\ trainer.timers < MaxTimers
  /\ IF user = Null THEN trainer' = trainer
     ELSE IF Validation(trainer.formData) # Null
     THEN trainer' = [trainer EXCEPT !.uploadResult = Validation(trainer.formData)]
     ELSE trainer' = [trainer EXCEPT !.uploadResult = Null, !.saving = TRUE,
                                     !.pc = "insert"]
  /\ TrainerOnly

\* the insert resolves without error: the webhook POST is sent
ResourceInsertOk ==
  /\ page = "trainer" /\ trainer.pc = "insert"
  /\ trainer' = [trainer EXCEPT !.pc = "fetch"]
  /\ TrainerOnly

\* the insert returns an error or rejects: catch, then finally
ResourceInsertError ==
  /\ page = "trainer" /\ trainer.pc = "insert"
  /\ \E error \in TrainerErrors :
       trainer' = [trainer EXCEPT !.uploadResult = ResourceFailed(error),
                                  !.saving = FALSE, !.pc = "idle"]
  /\ TrainerOnly

\* the webhook fetch settles either way: the form is reset and hidden, the
\* success message is shown and the timer is started; then finally
ResourceSaves ==
  /\ page = "trainer" /\ trainer.pc = "fetch"
  /\ trainer' = [trainer EXCEPT !.formData = EmptyForm,
                                !.showAddForm = FALSE,
                                !.uploadResult = ResourceSaved,
                                !.timers = @ + 1,
                                !.saving = FALSE,
                                !.pc = "idle"]
  /\ TrainerOnly

\* variant: the callback clears nothing but the success message
TimerFiresIfSuccessShown ==
  /\ page = "trainer" /\ trainer.timers > 0
  /\ trainer' = [trainer EXCEPT
                   !.timers = @ - 1,
                   !.lastCleared = trainer.uploadResult,
                   !.uploadResult = IF @ = ResourceSaved THEN Null ELSE @]
  /\ TrainerOnly

\* the callback of setTimeout(() => setUploadResult(null), 3000)
TimerFires ==
  /\ page = "trainer" /\ trainer.timers > 0
  /\ trainer' = [trainer EXCEPT !.timers = @ - 1,
                                !.lastCleared = trainer.uploadResult,
                                !.uploadResult = Null]
  /\ TrainerOnly

\* the dismiss button of the banner
DismissTrainerResult ==
  /\ page = "trainer" /\ trainer.uploadResult # Null
  /\ trainer' = [trainer EXCEPT !.uploadResult = Null]
  /\ TrainerOnly

NextTrainer ==
  \/ ShowAddForm
  \/ EditForm
  \/ SubmitResource
  \/ ResourceInsertOk
  \/ ResourceInsertError
  \/ ResourceSaves
  \/ TimerFires
  \/ DismissTrainerResult

SpecTrainer == InitTrainer /\ [][NextTrainer]_vars

\* ------------------------------------------------------------------------
\* Vocabulary of the properties
\* ------------------------------------------------------------------------

\* the attempts made so far
Attempts == 1..Len(attempts)

\* attempt a has passed its last await
Done(a) == attempts[a].pc = "done"

\* attempt a's batch insert succeeded
InsertSucceeded(a) ==
  attempts[a].dbReply # Null /\ attempts[a].dbReply = Resolved(Null)

\* attempt a's batch insert returned an error
InsertFailed(a) ==
  /\ attempts[a].dbReply # Null
  /\ attempts[a].dbReply.t = "resolved"
  /\ attempts[a].dbReply.error # Null

\* the non-blank lines of attempt a's file, header first
FileLines(a) == Lines(attempts[a].csvFile.text)

\* the cell of a line under column c, trimmed and without quotes; empty if missing
CellAt(line, c) ==
  LET cells == Split(line, ",")
  IN  IF c <= Len(cells) THEN StripQuotes(Trim(cells[c])) ELSE <<>>

\* the columns of a header line that resolve to field f
ColumnsFor(headerLine, f) ==
  LET cells == Split(headerLine, ",")
  IN  {c \in 1..Len(cells) : FieldOf(HeaderCell(cells[c])) = f}

\* the value a line gives field f: the cell under the last column resolving to f
FieldText(headerLine, line, f) ==
  LET cols == ColumnsFor(headerLine, f)
  IN  IF cols = {} THEN <<>>
      ELSE CellAt(line, CHOOSE c \in cols : \A d \in cols : d <= c)

\* a data line is valid when it gives name, phone or email a non-empty value
ValidLine(headerLine, line) ==
  \E f \in {"name", "phone", "email"} : FieldText(headerLine, line, f) # <<>>

\* the positions (header = 1) of the valid and of the rejected data lines
ValidRows(lines) == {r \in 2..Len(lines) : ValidLine(lines[1], lines[r])}

RejectedRows(lines) == {r \in 2..Len(lines) : ~ValidLine(lines[1], lines[r])}

\* a value is a non-empty string
NonEmptyString(v) == v.t = "string" /\ Len(v.s) > 0

\* the hint that opens the diagnostics when no row was valid
RequiredColumnsHint == "Please ensure your CSV has columns for name, phone, or email"

\* the first line of the webhook-failure note
WebhookFailedNote ==
  "Note: Leads saved to database successfully, but automation webhook failed."

\* text s occurs in the sequence of texts q
Occurs(s, q) == \E i \in 1..Len(q) : q[i] = s

\* the diagnostic of the rejected line at position r
Diagnostic(r) ==
  "Row " \o ToString(r) \o ": Missing required data (name, phone, or email)"

\* the seven lead fields of a batch record
LeadFields(record) == [f \in Fields |-> record[f]]

\* ------------------------------------------------------------------------
\* Properties
\* ------------------------------------------------------------------------

\* C1: every record that handleFileUpload put into an insert batch has a
\* non-empty name, phone or email; a row lacking all three is in no batch.
C1_BatchRecordsHaveContact ==
  \A b \in 1..Len(inserts) : \A k \in 1..Len(inserts[b]) :
    \/ NonEmptyString(inserts[b][k].name)
    \/ NonEmptyString(inserts[b][k].phone)
    \/ NonEmptyString(inserts[b][k].email)

\* a batch was issued for a file that also holds a row lacking all three
C1_Witness ==
  \E a \in Attempts :
    attempts[a].insert # 0 /\ RejectedRows(FileLines(a)) # {}

\* attempt a's parse step is the step being taken
Parses(a) == attempts[a].parsed = Null /\ attempts'[a].parsed # Null

\* C2: with k >= 1 valid and m rejected data rows, parseCSV yields k records
\* and m diagnostics, one naming each rejected row, and the step that parsed
\* the file hands exactly the k records, in order, to the insert.
C2_PartialBatchAccepted ==
  [][\A a \in Attempts :
       Parses(a) =>
         LET lines    == FileLines(a)
             valid    == ValidRows(lines)
             rejected == (2..Len(lines)) \ valid
             att      == attempts'[a]
         IN  (Len(lines) >= 2 /\ valid # {}) =>
               /\ att.parsed.t = "object"
               /\ Len(att.parsed.leads) = Cardinality(valid)
               /\ Len(att.parsed.errors) = Cardinality(rejected)
               /\ \A r \in rejected : Occurs(Diagnostic(r), att.parsed.errors)
               /\ att.pc = "insert"
               /\ inserts' = Append(inserts, inserts'[att.insert])
               /\ Len(inserts'[att.insert]) = Cardinality(valid)
               /\ \A k \in 1..Len(inserts'[att.insert]) :
                    LeadFields(inserts'[att.insert][k]) = att.parsed.leads[k]]_vars

\* a file with two valid rows and a rejected row before the last valid one
C2_Witness ==
  \E a \in Attempts :
    LET lines == FileLines(a)
    IN  /\ attempts[a].insert # 0
        /\ Cardinality(ValidRows(lines)) >= 2
        /\ \E r \in RejectedRows(lines) : \E v \in ValidRows(lines) : r < v

\* C3: an attempt whose batch insert succeeded ends with success = true and a
\* leads-saved count equal to the size of the inserted batch, whether the
\* webhook returned OK, returned a non-OK status or threw.
C3_NotificationIndependence ==
  \A a \in Attempts :
    (Done(a) /\ InsertSucceeded(a)) =>
      /\ attempts[a].reply # Null
      /\ attempts[a].result.success = TRUE
      /\ attempts[a].result.leadsCount = Len(inserts[attempts[a].insert])
      /\ attempts[a].result.message =
           "Successfully uploaded " \o ToString(Len(inserts[attempts[a].insert]))
             \o " leads to the database!"

\* an import ended after the insert succeeded and the webhook call threw
C3_Witness ==
  \E a \in Attempts :
    /\ Done(a) /\ InsertSucceeded(a)
    /\ attempts[a].reply.t = "rejected"
    /\ Len(inserts[attempts[a].insert]) >= 2

\* C4: when the batch insert returns an error the webhook is not invoked, the
\* outcome has success = false and its text carries the store's message
\* behind the prefix 'Database error: '.
C4_InsertErrorIsFatal ==
  /\ \A a \in Attempts :
       InsertFailed(a) =>
         /\ Done(a)
         /\ attempts[a].webhook = 0
         /\ attempts[a].result.success = FALSE
         /\ Occurs("Database error: " \o attempts[a].dbReply.error.message,
                   attempts[a].result.errors)
  /\ Len(webhookCalls) = Cardinality({a \in Attempts : InsertSucceeded(a)})

\* an insert returned an error after an earlier import had called the webhook
C4_Witness ==
  \E a \in Attempts : InsertFailed(a) /\ Len(webhookCalls) = 1

\* C5: a file with a header and data rows of which none is valid ends the
\* attempt in its parse step, without insert and without webhook call, with
\* success = false, the message 'No valid leads found in CSV file.', and as
\* diagnostics the required-columns hint followed by the per-row diagnostics
\* in row order.
C5_NoValidRecords ==
  [][\A a \in Attempts :
       Parses(a) =>
         LET lines == FileLines(a)
             att   == attempts'[a]
         IN  (Len(lines) >= 2 /\ ValidRows(lines) = {}) =>
               /\ att.pc = "done"
               /\ att.insert = 0 /\ inserts' = inserts
               /\ att.webhook = 0 /\ webhookCalls' = webhookCalls
               /\ att.result.success = FALSE
               /\ att.result.message = "No valid leads found in CSV file."
               /\ att.result.errors =
                    <<RequiredColumnsHint>>
                      \o [i \in 1..(Len(lines) - 1) |-> Diagnostic(i + 1)]
               /\ uploadResult' = att.result]_vars

\* an attempt ended on a file with two data rows, both rejected
C5_Witness ==
  \E a \in Attempts :
    /\ Done(a) /\ attempts[a].parsed # Null
    /\ Len(FileLines(a)) >= 3
    /\ ValidRows(FileLines(a)) = {}

\* C6: a file with fewer than 2 non-empty lines ends the attempt with the
\* message 'No valid leads found in CSV file.' and without an insert.
\* (parseCSV returns [] there, so leads is undefined and leads.length throws.)
C6_NoInputReportsNoValidLeads ==
  \A a \in Attempts :
    (Done(a) /\ attempts[a].parsed # Null /\ Len(FileLines(a)) < 2) =>
      /\ attempts[a].insert = 0
      /\ attempts[a].result.message = "No valid leads found in CSV file."

\* C7: the message reported for a file with fewer than 2 non-empty lines
\* differs from the message reported for a file whose data rows are all
\* rejected.
C7_NoInputDistinguishable ==
  \A a, b \in Attempts :
    ( /\ Done(a) /\ attempts[a].parsed # Null
      /\ Done(b) /\ attempts[b].parsed # Null
      /\ attempts[a].result.message = attempts[b].result.message ) =>
      ~ ( /\ Len(FileLines(a)) < 2
          /\ Len(FileLines(b)) >= 2
          /\ ValidRows(FileLines(b)) = {} )

\* one behaviour imported a header-only file and a file with rejected rows only
C7_Witness ==
  \E a, b \in Attempts :
    /\ Done(a) /\ attempts[a].parsed # Null /\ Len(FileLines(a)) < 2
    /\ Done(b) /\ attempts[b].parsed # Null /\ Len(FileLines(b)) >= 2
    /\ ValidRows(FileLines(b)) = {}

\* the first header cell of attempt a's file is user_id
HasUserIdColumn(a) ==
  LET lines == FileLines(a)
  IN  Len(lines) >= 1 /\ HeaderCell(Split(lines[1], ",")[1]) = <<"u","s","e","r","_","i","d">>

\* C8: every record of every insert batch carries the authenticated user's id,
\* the loaded campaign's id and the status 'pending', whatever the file holds.
C8_OwnerCampaignStatusFixed ==
  \A b \in 1..Len(inserts) : \A k \in 1..Len(inserts[b]) :
    /\ inserts[b][k].user_id = user.id
    /\ inserts[b][k].campaign_id = campaign.id
    /\ inserts[b][k].status = "pending"

\* a batch was issued for a file with a user_id column and a STATUS column
C8_Witness ==
  \E a \in Attempts : attempts[a].insert # 0 /\ HasUserIdColumn(a)

\* C9: after a successful insert the diagnostics are exactly the note and the
\* webhook's own error when the webhook threw or returned non-OK, and are
\* empty when the webhook returned OK.
C9_WebhookDiagnostics ==
  \A a \in Attempts :
    (Done(a) /\ InsertSucceeded(a)) =>
      LET reply == attempts[a].reply
          errs  == attempts[a].result.errors
      IN  CASE reply.t = "response" /\ reply.ok -> errs = <<>>
            [] reply.t = "response" /\ ~reply.ok ->
                 errs = <<WebhookFailedNote,
                          "Webhook failed with status: " \o ToString(reply.status)>>
            [] reply.t = "rejected" /\ reply.error.isError ->
                 errs = <<WebhookFailedNote, "Webhook error: " \o reply.error.message>>
            [] reply.t = "rejected" /\ ~reply.error.isError ->
                 errs = <<WebhookFailedNote, "Webhook error: Unknown error">>

\* an import ended after the webhook returned a non-OK status
C9_Witness ==
  \E a \in Attempts :
    /\ Done(a) /\ InsertSucceeded(a)
    /\ attempts[a].reply.t = "response" /\ ~attempts[a].reply.ok

\* C10: when rows were rejected and the insert succeeded, the outcome's
\* diagnostics hold one entry for each rejected row.
\* (The success branch sets errors from the webhook alone.)
C10_OutcomeCarriesRowDiagnostics ==
  \A a \in Attempts :
    (Done(a) /\ InsertSucceeded(a)) =>
      \A r \in RejectedRows(FileLines(a)) :
        Occurs(Diagnostic(r), attempts[a].result.errors)

\* ------------------------------------------------------------------------
\* Properties of the parser and of the attempts as a whole
\* ------------------------------------------------------------------------

\* every line of attempt a's file, blank ones included, as the file has them
AllLines(a) == Split(attempts[a].csvFile.text, "\n")

\* a line is retained when it is non-empty after trimming
IsRetained(line) == Trim(line) # <<>>

\* the retained lines of attempt a's file, header first
Retained(a) == SelectSeq(AllLines(a), IsRetained)

\* attempt a's parse returned the object { leads, errors }
Parsed(a) == attempts[a].parsed # Null /\ attempts[a].parsed.t = "object"

\* the i-th smallest member of a set of numbers
NthSmallest(S, i) == CHOOSE x \in S : Cardinality({y \in S : y < x}) = i - 1

\* the line numbers, in the file as it is, of the rejected data lines
RejectedFileLines(all) ==
  LET kept   == {o \in 1..Len(all) : IsRetained(all[o])}
      header == CHOOSE o \in kept : \A q \in kept : o <= q
  IN  {o \in kept \ {header} : ~ValidLine(all[header], all[o])}

\* C11: the diagnostics of a parse are exactly those of the rejected data
\* lines, each carrying the line's 1-based number in the original file,
\* blank lines counted.
C11_DiagnosticNamesFileLine ==
  \A a \in Attempts :
    Parsed(a) =>
      LET rejected == RejectedFileLines(AllLines(a))
          errors   == attempts[a].parsed.errors
      IN  /\ Len(errors) = Cardinality(rejected)
          /\ \A i \in 1..Len(errors) : errors[i] = Diagnostic(NthSmallest(rejected, i))

\* C12: the diagnostics of a parse are exactly those of the rejected data
\* lines in file order, each carrying the line's 1-based position among
\* the retained lines (header = 1); a line of commas only is retained.
C12_DiagnosticCountsRetainedLines ==
  \A a \in Attempts :
    Parsed(a) =>
      LET rejected == RejectedRows(Retained(a))
          errors   == attempts[a].parsed.errors
      IN  /\ Len(errors) = Cardinality(rejected)
          /\ \A i \in 1..Len(errors) : errors[i] = Diagnostic(NthSmallest(rejected, i))

\* a parsed file with a blank second line and, after it, a rejected line of
\* a single comma whose diagnostic carries its retained position
C12_Witness ==
  \E a \in Attempts :
    /\ Parsed(a)
    /\ Len(AllLines(a)) >= 3 /\ ~IsRetained(AllLines(a)[2])
    /\ \E r \in 2..Len(Retained(a)) :
         /\ Retained(a)[r] = <<",">>
         /\ Occurs(Diagnostic(r), attempts[a].parsed.errors)

\* C13: every attempt that has got past the guard and has ended has passed
\* an outcome to setUploadResult: a failure outcome after a failed file
\* read, a failed parse, or an insert that returned an error or rejected,
\* and a success outcome with the two webhook notes after a rejected POST.
C13_EveryFaultBecomesOutcome ==
  \A a \in Attempts :
    Done(a) =>
      LET att == attempts[a]
      IN  /\ att.result # Null
          /\ att.parsed = Null => ~att.result.success
          /\ att.parsed.t = "array" => ~att.result.success
          /\ (att.dbReply # Null /\ ~InsertSucceeded(a)) => ~att.result.success
          /\ att.reply.t = "rejected" =>
               att.result.success /\ Len(att.result.errors) = 2

\* an attempt whose file read was rejected has ended with a failure outcome
C13_Witness ==
  \E a \in Attempts :
    Done(a) /\ attempts[a].parsed = Null /\ attempts[a].result # Null

\* the lead of the row x,y under the columns <cell>,email when the cell
\* resolves to field f ("" for no field)
AliasLead(f) ==
  [g \in Fields |-> IF g = "email" THEN Str(<<"y">>)
                    ELSE IF g = f THEN Str(<<"x">>)
                    ELSE Undefined]

\* C14: a header cell that is an alias of the table, in lower case, in
\* capitals, capitalised in quotes with blanks around, or with a quote
\* inside, assigns its cell to the alias's canonical field; a header cell
\* that is no alias gives no field and no diagnostic.
C14_AliasResolution ==
  \A a \in Attempts :
    Parsed(a) =>
      /\ \A p \in Aliases : \A cell \in Spellings(p[1]) :
           attempts[a].csvFile = AliasFile(cell) =>
             /\ attempts[a].parsed.leads = <<AliasLead(p[2])>>
             /\ attempts[a].parsed.errors = <<>>
      /\ \A cell \in UnknownHeaders :
           attempts[a].csvFile = AliasFile(cell) =>
             /\ attempts[a].parsed.leads = <<AliasLead("")>>
             /\ attempts[a].parsed.errors = <<>>

\* the file with the header cell  "Full_name"  (quoted, blanks around) was
\* parsed and its row has the name x
C14_Witness ==
  \E a \in Attempts :
    /\ Parsed(a)
    /\ attempts[a].csvFile =
         AliasFile(<<" ","\"","F","u","l","l","_","n","a","m","e","\""," ">>)
    /\ attempts[a].parsed.leads[1]["name"] = Str(<<"x">>)

\* C15: a change of the file input, whether it picks a file of the disk or
\* none, and the dismiss button both leave no outcome displayed; the
\* dismiss button leaves the selected file and uploadLoading as they were.
C15_SelectAndDismissResetOutcome ==
  [][ /\ SelectFile =>
           uploadResult' = Null /\ csvFile' \in disk \cup {Null}
      /\ ClearUploadResult =>
           uploadResult' = Null /\ UNCHANGED <<csvFile, uploadLoading>> ]_vars

\* after a failed attempt the outcome is no longer displayed while the
\* file is still selected
C15_Witness ==
  /\ Len(attempts) > 0
  /\ \A a \in Attempts : Done(a) /\ ~attempts[a].result.success
  /\ uploadResult = Null
  /\ csvFile # Null

\* attempts a and b, a before b, both ended in success with the same file
SuccessfulTwice(a, b) ==
  /\ a < b
  /\ Done(a) /\ InsertSucceeded(a)
  /\ Done(b) /\ InsertSucceeded(b)
  /\ attempts[a].csvFile = attempts[b].csvFile

\* C16: two successful attempts with the same file of k valid rows have
\* issued two insert batches of the same k rows each, 2k rows in all, and
\* two webhook POSTs with the same body.
C16_SecondSubmissionNotSuppressed ==
  \A a \in Attempts : \A b \in Attempts :
    SuccessfulTwice(a, b) =>
      LET k  == Cardinality(ValidRows(FileLines(a)))
          ia == attempts[a].insert
          ib == attempts[b].insert
          wa == attempts[a].webhook
          wb == attempts[b].webhook
      IN  /\ ia # 0 /\ ib # 0 /\ ia # ib
          /\ inserts[ia] = inserts[ib]
          /\ Len(inserts[ia]) + Len(inserts[ib]) = 2 * k
          /\ wa # 0 /\ wb # 0 /\ wa # wb
          /\ webhookCalls[wa] = webhookCalls[wb]

\* the same file with at least one valid row was imported twice with
\* success, and the store and the webhook were each called twice
C16_Witness ==
  /\ \E a \in Attempts : \E b \in Attempts :
       SuccessfulTwice(a, b) /\ ValidRows(FileLines(a)) # {}
  /\ Len(inserts) = 2
  /\ Len(webhookCalls) = 2

\* C17: when no promise stays pending for ever, every attempt that was
\* triggered reaches its end, and uploadLoading, once true, is false again.
C17_AttemptTerminates ==
  /\ \A a \in 1..MaxAttempts :
       (Len(attempts) >= a) ~> (Len(attempts) >= a /\ attempts[a].pc = "done")
  /\ uploadLoading ~> ~uploadLoading

\* an attempt whose insert returned an error has ended and the editor is
\* idle again
C17_Witness ==
  \E a \in Attempts : Done(a) /\ InsertFailed(a) /\ ~uploadLoading

\* the attempts that issued batch i, and those that issued POST w
IssuersOfInsert(i) == {a \in Attempts : attempts[a].insert = i}

IssuersOfPost(w) == {a \in Attempts : attempts[a].webhook = w}

\* C18: every batch insert and every webhook POST was issued by exactly one
\* triggered attempt, and an attempt issues at most one of each; so there
\* are never more inserts or POSTs than triggers, also after a failure.
C18_NoRetry ==
  /\ \A i \in 1..Len(inserts) : Cardinality(IssuersOfInsert(i)) = 1
  /\ \A w \in 1..Len(webhookCalls) : Cardinality(IssuersOfPost(w)) = 1
  /\ Len(inserts) <= Len(attempts)
  /\ Len(webhookCalls) <= Len(inserts)

\* one attempt ended with a failed insert and another with a failed
\* webhook call, and there are two inserts and one POST in all
C18_Witness ==
  /\ \E a \in Attempts : Done(a) /\ InsertFailed(a)
  /\ \E b \in Attempts : Done(b) /\ attempts[b].reply.t = "rejected"
  /\ Len(inserts) = 2
  /\ Len(webhookCalls) = 1

\* the attempts that have not passed their last await
InFlight == {a \in Attempts : ~Done(a)}

\* C19 (as claimed): attempts do not exclude each other, so while an
\* attempt is in flight and a file is selected, a click on the upload
\* button triggers a further attempt.
C19_SecondTriggerWhileInFlight ==
  (Rendered /\ InFlight # {} /\ csvFile # Null /\ Len(attempts) < MaxAttempts)
    => ENABLED ClickUpload

\* C19 (amended): attempts exclude each other: while an attempt is in
\* flight uploadLoading is true, which disables the upload button, so at
\* most one attempt is in flight at any time.
C19_AtMostOneInFlight ==
  /\ Cardinality(InFlight) <= 1
  /\ InFlight # {} => uploadLoading /\ ~ENABLED ClickUpload

\* a second attempt is in flight, after the first has ended
C19_Witness ==
  /\ Len(attempts) = 2
  /\ Done(1)
  /\ InFlight = {2}
  /\ csvFile # Null

\* the fields that two or more columns of a header line resolve to
DuplicatedFields(headerLine) ==
  {f \in Fields : Cardinality(ColumnsFor(headerLine, f)) >= 2}

\* the value of a field taken from the last column resolving to it: null
\* when that cell is empty or missing
LastColumnValue(headerLine, line, f) ==
  IF FieldText(headerLine, line, f) = <<>> THEN Null
  ELSE Str(FieldText(headerLine, line, f))

\* C20: when several columns resolve to the same field, the field of every
\* record is the cell under the last of them, null when that cell is empty
\* or missing even if an earlier one is not; a row is accepted or rejected
\* on the values so determined.
C20_LastDuplicateColumnWins ==
  \A a \in Attempts :
    (Parsed(a) /\ DuplicatedFields(Retained(a)[1]) # {}) =>
      LET lines == Retained(a)
          valid == ValidRows(lines)
          leads == attempts[a].parsed.leads
      IN  /\ Len(leads) = Cardinality(valid)
          /\ Len(attempts[a].parsed.errors) = Cardinality(RejectedRows(lines))
          /\ \A j \in 1..Len(leads) : \A f \in DuplicatedFields(lines[1]) :
               leads[j][f] = LastColumnValue(lines[1], lines[NthSmallest(valid, j)], f)

\* under the header name,full_name the row Alice, was rejected for having
\* no name, and the row Alice,Bob gave the name Bob
C20_Witness ==
  \E a \in Attempts :
    /\ Parsed(a)
    /\ Retained(a)[1] = HeaderNameFullName
    /\ \E r \in 2..Len(Retained(a)) :
         /\ Retained(a)[r] = <<"A","l","i","c","e",",">>
         /\ Occurs(Diagnostic(r), attempts[a].parsed.errors)
    /\ Len(attempts[a].parsed.leads) = 1
    /\ attempts[a].parsed.leads[1]["name"] = Str(<<"B","o","b">>)

\* the number of cells of a line, split on its commas
CellCount(line) == Len(Split(line, ","))

\* the data lines with fewer cells than the header has columns
ShortRows(lines) == {r \in 2..Len(lines) : CellCount(lines[r]) < CellCount(lines[1])}

\* the fields whose deciding (last) column lies beyond the line's last cell
FieldsBeyond(headerLine, line) ==
  {f \in Fields :
     /\ ColumnsFor(headerLine, f) # {}
     /\ \E c \in ColumnsFor(headerLine, f) :
          /\ \A d \in ColumnsFor(headerLine, f) : d <= c
          /\ c > CellCount(line)}

\* C21: a data row with fewer cells than the header has columns raises
\* nothing of its own: its fields whose column lies beyond its last cell
\* are null, and it is accepted or rejected, with the usual diagnostic, on
\* the cells it has.
C21_ShortRowYieldsAbsentValues ==
  \A a \in Attempts :
    Parsed(a) =>
      LET lines == Retained(a)
          valid == ValidRows(lines)
          leads == attempts[a].parsed.leads
      IN  /\ Len(leads) = Cardinality(valid)
          /\ Len(attempts[a].parsed.errors) = Cardinality(RejectedRows(lines))
          /\ \A j \in 1..Len(leads) :
               LET r == NthSmallest(valid, j)
               IN  r \in ShortRows(lines) =>
                     \A f \in FieldsBeyond(lines[1], lines[r]) : leads[j][f] = Null
          /\ \A r \in ShortRows(lines) \ valid :
               Occurs(Diagnostic(r), attempts[a].parsed.errors)

\* under the header name,company the row Alice was accepted with the name
\* Alice and a null company_name
C21_Witness ==
  \E a \in Attempts :
    /\ Parsed(a)
    /\ Retained(a)[1] = HeaderNameCompany
    /\ Retained(a)[2] = <<"A","l","i","c","e">>
    /\ attempts[a].parsed.leads[1]["name"] = Str(<<"A","l","i","c","e">>)
    /\ attempts[a].parsed.leads[1]["company_name"] = Null

\* "a,b",c
QuotedCommaRow == <<"\"","a",",","b","\"",",","c">>

\* C22: the row "a,b",c is cut at both commas: the field of the first
\* column is a, the field of the second column is b (the second column
\* decides when both resolve to one field), and no field holds a,b or c.
C22_QuotedCommaSplitsCell ==
  \A a \in Attempts :
    Parsed(a) =>
      LET lines == Retained(a)
          valid == ValidRows(lines)
      IN  \A r \in 2..Len(lines) :
            (lines[r] = QuotedCommaRow /\ CellCount(lines[1]) = 2) =>
              /\ r \in valid
              /\ LET lead == attempts[a].parsed.leads[Cardinality({q \in valid : q <= r})]
                 IN  \A f \in Fields :
                       lead[f] = IF 2 \in ColumnsFor(lines[1], f) THEN Str(<<"b">>)
                                 ELSE IF 1 \in ColumnsFor(lines[1], f) THEN Str(<<"a">>)
                                 ELSE Undefined

\* under the header name,company the row "a,b",c gave the name a and the
\* company_name b
C22_Witness ==
  \E a \in Attempts :
    /\ Parsed(a)
    /\ Retained(a)[1] = HeaderNameCompany
    /\ Retained(a)[2] = QuotedCommaRow
    /\ attempts[a].parsed.leads[1]["name"] = Str(<<"a">>)
    /\ attempts[a].parsed.leads[1]["company_name"] = Str(<<"b">>)

\* the row number a diagnostic names, 0 if the text is no diagnostic
RowNumberOf(text, lines) ==
  IF \E r \in 2..Len(lines) : text = Diagnostic(r)
  THEN CHOOSE r \in 2..Len(lines) : text = Diagnostic(r)
  ELSE 0

\* C28: the records of an attempt's insert batch are those of the accepted
\* rows in the order of the rows, and the diagnostics name rows in strictly
\* increasing order, so none is named twice.
C28_OrderPreserved ==
  \A a \in Attempts :
    Parsed(a) =>
      LET lines  == Retained(a)
          valid  == ValidRows(lines)
          errors == attempts[a].parsed.errors
      IN  /\ attempts[a].insert # 0 =>
               LET batch == inserts[attempts[a].insert]
               IN  /\ Len(batch) = Cardinality(valid)
                   /\ \A j \in 1..Len(batch) : \A f \in Fields :
                        ColumnsFor(lines[1], f) # {} =>
                          batch[j][f] =
                            LastColumnValue(lines[1], lines[NthSmallest(valid, j)], f)
          /\ \A i \in 1..Len(errors) : RowNumberOf(errors[i], lines) # 0
          /\ \A i \in 1..Len(errors) : \A j \in 1..Len(errors) :
               i < j => RowNumberOf(errors[i], lines) < RowNumberOf(errors[j], lines)

\* a batch of two records with different names, in the order of their rows
C28_Witness ==
  \E a \in Attempts :
    /\ Parsed(a)
    /\ attempts[a].insert # 0
    /\ Retained(a) = <<HeaderNameCompany, <<"A","l","i","c","e",",","B","o","b">>,
                       QuotedCommaRow>>
    /\ inserts[attempts[a].insert][1]["name"] = Str(<<"A","l","i","c","e">>)
    /\ inserts[attempts[a].insert][2]["name"] = Str(<<"a">>)

\* the dashboard shows stats it has fetched, and both lead counts were answered
DashShown ==
  /\ dashboard.pc = "done"
  /\ dashboard.activeReply # Pending
  /\ dashboard.replies["uploaded_leads"].t = "number"
  /\ dashboard.activeReply.t = "number"

\* C23: the two lead counts on display come from separate reads: totalLeads
\* is the number of rows there were when the first read resolved, and
\* activeLeads is the number of active rows there were when the later read
\* resolved, rows inserted in between included.
C23_CountsReflectTheirOwnInstants ==
  DashShown =>
    /\ dashboard.totalReadAt <= dashboard.activeReadAt
    /\ dashboard.stats.totalLeads = dashboard.totalReadAt
    /\ dashboard.stats.activeLeads =
         CountActive(SubSeq(dashboard.rows, 1, dashboard.activeReadAt))

\* rows were inserted between the two reads and the dashboard shows more
\* active leads than leads in total
C23_Witness ==
  /\ DashShown
  /\ dashboard.totalReadAt < dashboard.activeReadAt
  /\ dashboard.stats.activeLeads > dashboard.stats.totalLeads

\* attempt a's webhook step is the step being taken
Completes(a) == attempts[a].pc = "fetch" /\ attempts'[a].pc = "done"

\* attempt a passes its last await in the step being taken
Ends(a) == attempts[a].pc # "done" /\ attempts'[a].pc = "done"

\* C24: the step that ends a successful attempt sets the selected file to
\* none and displays that attempt's outcome, whatever file is selected and
\* whatever is displayed at that moment.
C24_CompletionDiscardsNewSelection ==
  [][\A a \in Attempts :
       Completes(a) =>
         /\ csvFile' = Null
         /\ uploadResult' = attempts'[a].result
         /\ attempts'[a].result.message =
              "Successfully uploaded "
                \o ToString(Cardinality(ValidRows(FileLines(a))))
                \o " leads to the database!"]_vars

\* while an attempt awaits its webhook reply another file of the disk is
\* selected and nothing is displayed
C24_Witness ==
  \E a \in Attempts :
    /\ attempts[a].pc = "fetch"
    /\ csvFile # Null
    /\ csvFile # attempts[a].csvFile
    /\ uploadResult = Null

\* C25: uploadLoading is true in exactly the states in which some attempt
\* awaits its file read, its insert or its webhook reply.
C25_LoadingIffInFlight ==
  uploadLoading <=> (\E a \in Attempts : attempts[a].pc \in {"text", "insert", "fetch"})

\* a second attempt awaits its insert while uploadLoading is true
C25_Witness ==
  /\ Len(attempts) = 2
  /\ Done(1)
  /\ attempts[2].pc = "insert"
  /\ uploadLoading

\* C26: the step that ends a failed attempt leaves the selected file as it
\* is; the step that ends an attempt sets it to none only after that
\* attempt's insert succeeded.
C26_FailureKeepsFile ==
  [][\A a \in Attempts :
       Ends(a) =>
         /\ ~attempts'[a].result.success => csvFile' = csvFile
         /\ csvFile' # csvFile =>
              csvFile' = Null /\ attempts'[a].dbReply = Resolved(Null)]_vars

\* an attempt has ended with a failed insert and its file is still selected
C26_Witness ==
  \E a \in Attempts :
    Done(a) /\ InsertFailed(a) /\ csvFile = attempts[a].csvFile

\* C27: a call of handleFileUpload while no file is selected, no user is
\* signed in or no campaign is loaded changes nothing: uploadLoading, the
\* outcome, the selected file, the attempts, the inserts and the POSTs.
C27_GuardedCallIsNoOp ==
  [][(HandleFileUpload /\ (csvFile = Null \/ user = Null \/ campaign = Null)) =>
       UNCHANGED <<uploadLoading, uploadResult, csvFile, attempts, inserts,
                   webhookCalls>>]_vars

\* an outcome is displayed and no file is selected, so that a call of the
\* handler meets its guard
C27_Witness ==
  /\ Rendered
  /\ csvFile = Null
  /\ uploadResult # Null
  /\ ~uploadLoading

\* the save of the campaign details sets its result in the step being taken
SaveEnds == save.saving /\ ~save'.saving

\* C29: the import and the save write the one outcome that is displayed:
\* the step that ends a save displays the save's result and the step that
\* ends an import attempt displays the attempt's outcome, whatever was
\* displayed before and whether or not the other is still in flight.
C29_SaveAndImportShareOutcome ==
  [][ /\ SaveEnds => uploadResult' \in {SavedResult, SaveFailedResult}
      /\ \A a \in Attempts : Ends(a) => uploadResult' = attempts'[a].result ]_vars

\* a save that was in flight together with an import ended after it and
\* replaced the import's outcome, diagnostics included, by its own result
C29_Witness ==
  /\ ~save.saving
  /\ \E a \in save.inFlight :
       /\ Done(a)
       /\ save.replaced = attempts[a].result
       /\ Len(attempts[a].result.errors) > 0
  /\ uploadResult = SavedResult

\* a timer callback runs in the step being taken
TimerRuns == trainer'.timers < trainer.timers

\* C30: the step in which a timer callback runs leaves no result on
\* display in AITrainer, whatever result was displayed before it.
C30_TimerClearsWhateverIsShown ==
  [][TimerRuns => trainer'.uploadResult = Null]_vars

\* the timer of an earlier save has run while a failure or validation
\* message was on display, and nothing is displayed now
C30_Witness ==
  /\ trainer.lastCleared # NothingYet
  /\ trainer.lastCleared # Null
  /\ ~trainer.lastCleared.success
  /\ trainer.uploadResult = Null
  /\ trainer.timers = 0

====
